---- MODULE Spec2Model ----
(***************************************************************************)
(* Model of c2rust-transpile/src/cfg/inc_cleanup.rs: the pass that removes *)
(* the redundant tail break/return statements the incremental relooper     *)
(* leaves at the end of the blocks it synthesises.                         *)
(*                                                                         *)
(* The Rust AST is modelled by records. Option<T> is a sequence of length  *)
(* 0 (None) or 1 (Some(x)); Vec<T> is a sequence.                          *)
(*   Stmt  : [kind, expr]            kind is the StmtKind variant          *)
(*   Expr  : [node |-> "Ret", val] | [node |-> "Break", lbl, val]          *)
(*         | [node |-> "Lit", lit] | [node |-> "Path", name]               *)
(*         | [node |-> "If", cond, body, els]                              *)
(*         | [node |-> "Match", scrut, arms] | [node |-> "Block", blk, label]*)
(*   Block : [stmts]                                                       *)
(*   Arm   : [pat, body]                                                   *)
(***************************************************************************)
EXTENDS Integers, Sequences, FiniteSets

VARIABLES in_tail, brk_lbl, stmts, before, result, calls

vars == <<in_tail, brk_lbl, stmts, before, result, calls>>

(* ------------------------------ bounds --------------------------------- *)

\* Largest number of statements (at any depth) in a generated input tree.
MaxStmts == 3

\* Largest number of consecutive calls of remove_tail_expr on one sequence.
MaxCalls == 2

(* ------------------------------ AST ------------------------------------ *)

None == <<>>

Some(x) == <<x>>

\* cfg::Label, the relooper's label identity.
Synthetic(n) == [kind |-> "Synthetic", id |-> n]

FromC(n) == [kind |-> "FromC", id |-> n]

\* Label::pretty_print: the label's printed text, a prefix that tells the
\* two kinds of label apart followed by the number.
pretty_print(l) == <<IF l.kind = "FromC" THEN "'c_" ELSE "'s_", l.id>>

\* mk().label(text): the AST label whose identifier is the given text.
label(text) == [ident |-> text]

LitInt(v, ty) == [node |-> "Lit", lit |-> [node |-> "Int", value |-> v, ty |-> ty]]

Path(name) == [node |-> "Path", name |-> name]

Ret(val) == [node |-> "Ret", val |-> val]

Break(lbl, val) == [node |-> "Break", lbl |-> lbl, val |-> val]

BlockExpr(ss, lab) == [node |-> "Block", blk |-> [stmts |-> ss], label |-> lab]

If(cond, ss, els) == [node |-> "If", cond |-> cond, body |-> [stmts |-> ss], els |-> els]

Match(scrut, arms) == [node |-> "Match", scrut |-> scrut, arms |-> arms]

Arm(pat, body) == [pat |-> pat, body |-> body]

Semi(e) == [kind |-> "Semi", expr |-> e]

ExprStmt(e) == [kind |-> "Expr", expr |-> e]

(* --------------------------- the program ------------------------------- *)

\* IncCleanup { in_tail, brk_lbl }
IncCleanup(it, bl) == [in_tail |-> it, brk_lbl |-> bl]

RECURSIVE remove_tail_expr(_, _)
RECURSIVE remove_tail_cases(_, _, _, _)

\* is_idempotent_tail_expr without the comparison of the break's label with
\* brk_lbl (line 96).
is_idempotent_tail_expr_any_label(self, stmt) ==
    IF stmt.kind # "Semi" THEN FALSE
    ELSE LET tail_expr == stmt.expr IN
         CASE self.in_tail = Some("Main") ->
                  /\ tail_expr.node = "Ret"
                  /\ tail_expr.val # None
                  /\ tail_expr.val[1].node = "Lit"
                  /\ tail_expr.val[1].lit.node = "Int"
                  /\ tail_expr.val[1].lit.value = 0
                  /\ tail_expr.val[1].lit.ty = "Unsuffixed"
           [] self.in_tail = Some("Void") ->
                  /\ tail_expr.node = "Ret"
                  /\ tail_expr.val = None
           [] OTHER ->
                  /\ tail_expr.node = "Break"
                  /\ tail_expr.lbl # None
                  /\ tail_expr.val = None

\* is_idempotent_tail_expr matching LitKind::Int(0, _) instead of
\* LitKind::Int(0, LitIntType::Unsuffixed) (line 79).
is_idempotent_tail_expr_any_suffix(self, stmt) ==
    IF stmt.kind # "Semi" THEN FALSE
    ELSE LET tail_expr == stmt.expr IN
         CASE self.in_tail = Some("Main") ->
                  /\ tail_expr.node = "Ret"
                  /\ tail_expr.val # None
                  /\ tail_expr.val[1].node = "Lit"
                  /\ tail_expr.val[1].lit.node = "Int"
                  /\ tail_expr.val[1].lit.value = 0
           [] self.in_tail = Some("Void") ->
                  /\ tail_expr.node = "Ret"
                  /\ tail_expr.val = None
           [] OTHER ->
                  /\ tail_expr.node = "Break"
                  /\ tail_expr.lbl # None
                  /\ tail_expr.val = None
                  /\ tail_expr.lbl[1].ident = label(pretty_print(self.brk_lbl)).ident

is_idempotent_tail_expr(self, stmt) ==
    IF stmt.kind # "Semi" THEN FALSE
    ELSE LET tail_expr == stmt.expr IN
         CASE self.in_tail = Some("Main") ->
                  /\ tail_expr.node = "Ret"
                  /\ tail_expr.val # None
                  /\ tail_expr.val[1].node = "Lit"
                  /\ tail_expr.val[1].lit.node = "Int"
                  /\ tail_expr.val[1].lit.value = 0
                  /\ tail_expr.val[1].lit.ty = "Unsuffixed"
           [] self.in_tail = Some("Void") ->
                  /\ tail_expr.node = "Ret"
                  /\ tail_expr.val = None
           [] OTHER ->
                  /\ tail_expr.node = "Break"
                  /\ tail_expr.lbl # None
                  /\ tail_expr.val = None
                  /\ tail_expr.lbl[1].ident = label(pretty_print(self.brk_lbl)).ident

\* cleanup_if matching ExprKind::Block(ref blk, _) instead of
\* ExprKind::Block(ref blk, None) (line 113).
cleanup_if_any_label(stmt) ==
    IF /\ stmt.kind = "Expr"
       /\ stmt.expr.node = "If"
       /\ stmt.expr.els # None
       /\ stmt.expr.els[1].node = "Block"
       /\ stmt.expr.els[1].blk.stmts = <<>>
    THEN [stmt EXCEPT !.expr.els = None]
    ELSE stmt

cleanup_if(stmt) ==
    IF /\ stmt.kind = "Expr"
       /\ stmt.expr.node = "If"
       /\ stmt.expr.els # None
       /\ stmt.expr.els[1].node = "Block"
       /\ stmt.expr.els[1].label = None
       /\ stmt.expr.els[1].blk.stmts = <<>>
    THEN [stmt EXCEPT !.expr.els = None]
    ELSE stmt

\* The loop over the arms of a match (lines 44-51): arms i.. of cases are
\* still to be visited, removed is removed_tail_expr so far. `a || f()` does
\* not evaluate f() once a is true.
remove_tail_cases(self, cases, i, removed) ==
    IF i > Len(cases) THEN [cases |-> cases, removed |-> removed]
    ELSE IF cases[i].body.node = "Block" /\ ~removed
         THEN LET r == remove_tail_expr(self, cases[i].body.blk.stmts)
              IN remove_tail_cases(self,
                                   [cases EXCEPT ![i].body.blk.stmts = r.stmts],
                                   i + 1, r.removed)
         ELSE remove_tail_cases(self, cases, i + 1, removed)

\* remove_tail_nested returning the then-block's flag alone: the else-block's
\* result is not accumulated (line 37).
remove_tail_nested_then_flag(self, stmt) ==
    IF stmt.kind # "Expr" THEN [stmt |-> stmt, removed |-> FALSE]
    ELSE CASE stmt.expr.node = "If" ->
                  LET b == remove_tail_expr(self, stmt.expr.body.stmts)
                      s1 == [stmt EXCEPT !.expr.body.stmts = b.stmts]
                      sels == stmt.expr.els
                  IN IF sels # None /\ sels[1].node = "Block" /\ ~b.removed
                     THEN LET e == remove_tail_expr(self, sels[1].blk.stmts)
                          IN [stmt |-> [s1 EXCEPT !.expr.els[1].blk.stmts = e.stmts],
                              removed |-> b.removed]
                     ELSE [stmt |-> s1, removed |-> b.removed]
           [] stmt.expr.node = "Match" ->
                  LET c == remove_tail_cases(self, stmt.expr.arms, 1, FALSE)
                  IN [stmt |-> [stmt EXCEPT !.expr.arms = c.cases],
                      removed |-> c.removed]
           [] OTHER -> [stmt |-> stmt, removed |-> FALSE]

\* remove_tail_nested recursing into an else-branch that is an If expression
\* (an else-if chain) as well as into one that is a block (line 36).
remove_tail_nested_else_if(self, stmt) ==
    IF stmt.kind # "Expr" THEN [stmt |-> stmt, removed |-> FALSE]
    ELSE CASE stmt.expr.node = "If" ->
                  LET b == remove_tail_expr(self, stmt.expr.body.stmts)
                      s1 == [stmt EXCEPT !.expr.body.stmts = b.stmts]
                      sels == stmt.expr.els
                  IN IF sels # None /\ sels[1].node = "Block" /\ ~b.removed
                     THEN LET e == remove_tail_expr(self, sels[1].blk.stmts)
                          IN [stmt |-> [s1 EXCEPT !.expr.els[1].blk.stmts = e.stmts],
                              removed |-> e.removed]
                     ELSE IF sels # None /\ sels[1].node = "If" /\ ~b.removed
                     THEN LET e == remove_tail_expr(self, sels[1].body.stmts)
                          IN [stmt |-> [s1 EXCEPT !.expr.els[1].body.stmts = e.stmts],
                              removed |-> e.removed]
                     ELSE [stmt |-> s1, removed |-> b.removed]
           [] stmt.expr.node = "Match" ->
                  LET c == remove_tail_cases(self, stmt.expr.arms, 1, FALSE)
                  IN [stmt |-> [stmt EXCEPT !.expr.arms = c.cases],
                      removed |-> c.removed]
           [] OTHER -> [stmt |-> stmt, removed |-> FALSE]

\* remove_tail_nested with `a | f()` for `a || f()` on line 37: the
\* else-block is visited whatever the then-block's call returned.
remove_tail_nested_eager(self, stmt) ==
    IF stmt.kind # "Expr" THEN [stmt |-> stmt, removed |-> FALSE]
    ELSE CASE stmt.expr.node = "If" ->
                  LET b == remove_tail_expr(self, stmt.expr.body.stmts)
                      s1 == [stmt EXCEPT !.expr.body.stmts = b.stmts]
                      sels == stmt.expr.els
                  IN IF sels # None /\ sels[1].node = "Block"
                     THEN LET e == remove_tail_expr(self, sels[1].blk.stmts)
                          IN [stmt |-> [s1 EXCEPT !.expr.els[1].blk.stmts = e.stmts],
                              removed |-> b.removed \/ e.removed]
                     ELSE [stmt |-> s1, removed |-> b.removed]
           [] stmt.expr.node = "Match" ->
                  LET c == remove_tail_cases(self, stmt.expr.arms, 1, FALSE)
                  IN [stmt |-> [stmt EXCEPT !.expr.arms = c.cases],
                      removed |-> c.removed]
           [] OTHER -> [stmt |-> stmt, removed |-> FALSE]

\* Lines 29-56: the recursion into the blocks of a retained tail statement.
\* The result is the statement as mutated and removed_tail_expr.
remove_tail_nested(self, stmt) ==
    IF stmt.kind # "Expr" THEN [stmt |-> stmt, removed |-> FALSE]
    ELSE CASE stmt.expr.node = "If" ->
                  LET b == remove_tail_expr(self, stmt.expr.body.stmts)
                      s1 == [stmt EXCEPT !.expr.body.stmts = b.stmts]
                      sels == stmt.expr.els
                  IN IF sels # None /\ sels[1].node = "Block" /\ ~b.removed
                     THEN LET e == remove_tail_expr(self, sels[1].blk.stmts)
                          IN [stmt |-> [s1 EXCEPT !.expr.els[1].blk.stmts = e.stmts],
                              removed |-> e.removed]
                     ELSE [stmt |-> s1, removed |-> b.removed]
           [] stmt.expr.node = "Match" ->
                  LET c == remove_tail_cases(self, stmt.expr.arms, 1, FALSE)
                  IN [stmt |-> [stmt EXCEPT !.expr.arms = c.cases],
                      removed |-> c.removed]
           [] OTHER -> [stmt |-> stmt, removed |-> FALSE]

\* The result is the vector as mutated (stmts) and the value returned (removed).
remove_tail_expr(self, ss) ==
    IF ss = <<>> THEN [stmts |-> ss, removed |-> FALSE]
    ELSE LET stmt == ss[Len(ss)]
             popped == SubSeq(ss, 1, Len(ss) - 1)
         IN IF is_idempotent_tail_expr(self, stmt)
            THEN [stmts |-> popped, removed |-> TRUE]
            ELSE LET n == remove_tail_nested(self, stmt)
                 IN [stmts |-> Append(popped, cleanup_if(n.stmt)),
                     removed |-> n.removed]

(* ------------------------- input trees --------------------------------- *)

\* The labels the relooper has handed out.
Labels == {Synthetic(1), FromC(1)}

OtherLabel(l) == CHOOSE m \in Labels : m # l

BreakTo(l) == Break(Some(label(pretty_print(l))), None)

Zero == LitInt(0, "Unsuffixed")

\* The expression whose statement the context makes redundant.
IdemExpr(it, bl) ==
    CASE it = Some("Main") -> Ret(Some(Zero))
      [] it = Some("Void") -> Ret(None)
      [] OTHER -> BreakTo(bl)

\* The statements a sequence of a tree cleaned under the given context can
\* end in, apart from conditionals and matches: the statement the context
\* makes redundant and its near misses.
Leaves(it, bl) ==
    {Semi(IdemExpr(it, bl)), ExprStmt(IdemExpr(it, bl))} \cup
    CASE it = Some("Main") ->
             { Semi(Ret(Some(LitInt(1, "Unsuffixed")))),
               Semi(Ret(Some(LitInt(0, "I32")))),
               Semi(Ret(None)),
               Semi(BreakTo(bl)) }
      [] it = Some("Void") ->
             { Semi(Ret(Some(Zero))),
               Semi(BreakTo(bl)) }
      [] OTHER ->
             { Semi(BreakTo(OtherLabel(bl))),
               Semi(Break(Some(label(pretty_print(bl))), Some(Zero))),
               Semi(Break(None, None)),
               Semi(Ret(None)) }

\* The statements before the last one of a sequence.
Fronts(it, bl) ==
    { Semi(IdemExpr(it, bl)),
      Semi(IF it = None THEN BreakTo(OtherLabel(bl)) ELSE Ret(Some(Path("x")))) }

\* The optional label of a block expression.
BlockLabels == {None, Some(label(pretty_print(Synthetic(1))))}

RECURSIVE SeqsOfSize(_, _, _)
RECURSIVE StmtsOfSize(_, _, _)
RECURSIVE ArmsOfSize(_, _, _, _, _)

\* The else-branches holding n statements: none, a block, or an else-if
\* chain (an If expression that is not wrapped in a block).
ElsOfSize(it, bl, n) ==
    (IF n = 0 THEN {None} ELSE {})
    \cup { Some(BlockExpr(ss, lab)) : ss \in SeqsOfSize(it, bl, n), lab \in BlockLabels }
    \cup (IF n = 1 THEN {Some(If(Path("d"), <<Semi(IdemExpr(it, bl))>>, None))} ELSE {})

\* The bodies of a match arm holding n statements: a block, or an
\* expression that is not a block.
BodiesOfSize(it, bl, n) ==
    (IF n = 0 THEN {IdemExpr(it, bl)} ELSE {})
    \cup { BlockExpr(ss, None) : ss \in SeqsOfSize(it, bl, n) }
    \cup { BlockExpr(ss, Some(label(pretty_print(Synthetic(1))))) :
               ss \in (IF n = 1 THEN {<<Semi(IdemExpr(it, bl))>>} ELSE {}) }

\* The sequences of k arms holding n statements in all.
ArmsOfSize(it, bl, k, j, n) ==
    IF j > k THEN (IF n = 0 THEN {<<>>} ELSE {})
    ELSE UNION { { <<Arm(j, b)>> \o as : as \in ArmsOfSize(it, bl, k, j + 1, n - m),
                                         b \in BodiesOfSize(it, bl, m) } : m \in 0..n }

\* The conditionals and matches holding exactly n statements, themselves
\* included.
StmtsOfSize(it, bl, n) ==
    IF n < 1 THEN {}
    ELSE (IF n = 1 THEN Leaves(it, bl) ELSE {})
         \cup UNION { { ExprStmt(If(Path("c"), th, el)) :
                            th \in SeqsOfSize(it, bl, m),
                            el \in ElsOfSize(it, bl, n - 1 - m) } :
                      m \in 0..(n - 1) }
         \cup UNION { { ExprStmt(Match(Path("m"), as)) :
                            as \in ArmsOfSize(it, bl, k, 1, n - 1) } :
                      k \in {1, 2} }

\* The sequences of at most two statements before the last one.
FrontSeqs(it, bl, n) ==
    CASE n = 0 -> {<<>>}
      [] n = 1 -> { <<f>> : f \in Fronts(it, bl) }
      [] n = 2 -> { <<f, g>> : f \in Fronts(it, bl), g \in Fronts(it, bl) }
      [] OTHER -> {}

\* The sequences holding exactly n statements.
SeqsOfSize(it, bl, n) ==
    IF n = 0 THEN {<<>>}
    ELSE UNION { { Append(fs, st) : fs \in FrontSeqs(it, bl, n - m),
                                    st \in StmtsOfSize(it, bl, m) } :
                 m \in 1..n }

InTails == {None, Some("Main"), Some("Void")}

\* The break labels tried with a context: brk_lbl is read on the path of
\* in_tail = None alone (lines 94-101).
BrkLabels(it) == IF it = None THEN Labels ELSE {Synthetic(1)}

(* ------------------------- the state machine --------------------------- *)

\* stmts is fs followed by one statement that holds m statements, itself
\* included: a simple statement, a conditional or a match of one or two arms.
InitLast(it, bl, m, fs) ==
    \/ /\ m = 1
       /\ \E st \in Leaves(it, bl) : stmts = Append(fs, st)
    \/ \E a \in 0..(m - 1) :
          \E th \in SeqsOfSize(it, bl, a), el \in ElsOfSize(it, bl, m - 1 - a) :
             stmts = Append(fs, ExprStmt(If(Path("c"), th, el)))
    \/ \E b \in BodiesOfSize(it, bl, m - 1) :
          stmts = Append(fs, ExprStmt(Match(Path("m"), <<Arm(1, b)>>)))
    \/ \E a \in 0..(m - 1) :
          \E b1 \in BodiesOfSize(it, bl, a), b2 \in BodiesOfSize(it, bl, m - 1 - a) :
             stmts = Append(fs, ExprStmt(Match(Path("m"), <<Arm(1, b1), Arm(2, b2)>>)))

\* The relooper's output: a sequence of n statements in all.
InitTree(it, bl, n) ==
    \/ n = 0 /\ stmts = <<>>
    \/ \E m \in 1..n : \E fs \in FrontSeqs(it, bl, n - m) : InitLast(it, bl, m, fs)

\* After IncCleanup::new(in_tail, brk_lbl), with the relooper's output in stmts.
Init ==
    /\ in_tail \in InTails
    /\ brk_lbl \in BrkLabels(in_tail)
    /\ \E n \in 0..MaxStmts : InitTree(in_tail, brk_lbl, n)
    /\ before = stmts
    /\ result = FALSE
    /\ calls = 0

\* One call self.remove_tail_expr(&mut stmts).
RemoveTailExpr ==
    /\ calls < MaxCalls
    /\ LET r == remove_tail_expr(IncCleanup(in_tail, brk_lbl), stmts)
       IN /\ stmts' = r.stmts
          /\ result' = r.removed
    /\ before' = stmts
    /\ calls' = calls + 1
    /\ UNCHANGED <<in_tail, brk_lbl>>

Next == RemoveTailExpr

Spec == Init /\ [][Next]_vars

(* ------------- cleanup_if as a function of one statement --------------- *)

\* stmts holds the one statement cleanup_if is given.
InitCleanupIf ==
    /\ in_tail \in InTails
    /\ brk_lbl \in BrkLabels(in_tail)
    /\ \E m \in 1..MaxStmts : InitLast(in_tail, brk_lbl, m, <<>>)
    /\ before = stmts
    /\ result = FALSE
    /\ calls = 0

\* stmt = cleanup_if(stmt)
CleanupIf ==
    /\ calls = 0
    /\ stmts' = <<cleanup_if(stmts[1])>>
    /\ before' = stmts
    /\ calls' = 1
    /\ UNCHANGED <<in_tail, brk_lbl, result>>

NextCleanupIf == CleanupIf

SpecCleanupIf == InitCleanupIf /\ [][NextCleanupIf]_vars

(* ------------------------- reading a tree ------------------------------ *)

self == IncCleanup(in_tail, brk_lbl)

Last(ss) == ss[Len(ss)]

Front(ss) == SubSeq(ss, 1, Len(ss) - 1)

RECURSIVE AllStmts(_)
RECURSIVE ExprStmts(_)
RECURSIVE ArmsStmts(_)

\* Every statement of a sequence at any depth, in source order: each
\* statement is followed by the statements nested in it.
AllStmts(ss) ==
    IF ss = <<>> THEN <<>>
    ELSE AllStmts(Front(ss)) \o <<Last(ss)>> \o ExprStmts(Last(ss).expr)

ExprStmts(e) ==
    CASE e.node = "If" ->
             AllStmts(e.body.stmts) \o (IF e.els = None THEN <<>> ELSE ExprStmts(e.els[1]))
      [] e.node = "Block" -> AllStmts(e.blk.stmts)
      [] e.node = "Match" -> ArmsStmts(e.arms)
      [] OTHER -> <<>>

ArmsStmts(arms) ==
    IF arms = <<>> THEN <<>>
    ELSE ArmsStmts(Front(arms)) \o ExprStmts(Last(arms).body)

NumStmts(ss) == Len(AllStmts(ss))

IsIf(st) == st.kind = "Expr" /\ st.expr.node = "If"

IsMatch(st) == st.kind = "Expr" /\ st.expr.node = "Match"

IsCompound(st) == IsIf(st) \/ IsMatch(st)

IsSimple(st) == ~IsCompound(st)

HasBlockElse(st) == IsIf(st) /\ st.expr.els # None /\ st.expr.els[1].node = "Block"

ThenOf(st) == st.expr.body.stmts

ElseOf(st) == st.expr.els[1].blk.stmts

\* A call has been made: before is the sequence it was given, stmts the
\* sequence it left and result the value it returned.
Called == calls >= 1

\* The last statement of before is one the call keeps and looks into.
TailIf == Called /\ before # <<>> /\ IsIf(Last(before))

TailMatch == Called /\ before # <<>> /\ IsMatch(Last(before))

EndsIdempotent(ss) == ss # <<>> /\ is_idempotent_tail_expr(self, Last(ss))

(* ------------------------------ claims --------------------------------- *)

\* C1 (recursion completeness): under ImplicitBreakTo(L), when the tail
\* statement is a conditional whose then-block and else-block both end in a
\* valueless break to L, one call removes both breaks and returns true; an
\* else-block the removal empties is gone.
C1_RecursionCompleteness ==
    (/\ TailIf
     /\ in_tail = None
     /\ HasBlockElse(Last(before))
     /\ ThenOf(Last(before)) # <<>>
     /\ Last(ThenOf(Last(before))) = Semi(BreakTo(brk_lbl))
     /\ ElseOf(Last(before)) # <<>>
     /\ Last(ElseOf(Last(before))) = Semi(BreakTo(brk_lbl)))
    => /\ result = TRUE
       /\ Len(stmts) = Len(before)
       /\ IsIf(Last(stmts))
       /\ ThenOf(Last(stmts)) = Front(ThenOf(Last(before)))
       /\ \/ /\ Last(stmts).expr.els = None
             /\ Front(ElseOf(Last(before))) = <<>>
          \/ /\ HasBlockElse(Last(stmts))
             /\ ElseOf(Last(stmts)) = Front(ElseOf(Last(before)))

\* C2 (else collapse): when the tail statement is a conditional whose else
\* is a block of exactly one statement and that statement is an idempotent
\* tail under the context, the conditional has no else after one call.
C2_ElseCollapse ==
    (/\ TailIf
     /\ HasBlockElse(Last(before))
     /\ Len(ElseOf(Last(before))) = 1
     /\ is_idempotent_tail_expr(self, ElseOf(Last(before))[1]))
    => /\ stmts # <<>>
       /\ IsIf(Last(stmts))
       /\ Last(stmts).expr.els = None

\* C3 (idempotence): a second call on the sequence changes nothing and
\* returns false.
C3_Idempotence ==
    calls >= 2 => (stmts = before /\ result = FALSE)

\* A break statement that targets a label other than brk_lbl, carries a
\* value, or has no label.
ForeignBreak(st) ==
    /\ st.expr.node = "Break"
    /\ \/ st.expr.lbl = None
       \/ st.expr.val # None
       \/ \E l \in Labels \ {brk_lbl} : st.expr.lbl = Some(label(pretty_print(l)))

\* C4 (label precision): under ImplicitBreakTo(L1) the breaks to another
\* label, the breaks carrying a value and the breaks without a label that
\* the tree holds at any depth are the same, in the same order, after a call.
C4_LabelPrecision ==
    (Called /\ in_tail = None)
    => SelectSeq(AllStmts(stmts), ForeignBreak) = SelectSeq(AllStmts(before), ForeignBreak)

C4_Witness ==
    /\ Called /\ in_tail = None /\ result = TRUE
    /\ \E i \in 1..Len(AllStmts(before)) :
          /\ ForeignBreak(AllStmts(before)[i])
          /\ AllStmts(before)[i].expr.lbl = Some(label(pretty_print(brk_lbl)))

\* A simple statement other than `return 0;`.
NotReturnZero(st) == IsSimple(st) /\ st # Semi(Ret(Some(LitInt(0, "Unsuffixed"))))

\* C5 (context precision): under ImplicitReturnZero a call removes nothing
\* but statements `return 0;` with an unsuffixed literal: every other simple
\* statement of the tree, at any depth, and every conditional and match is
\* still there, in the same order; [return 1;] is left alone with result
\* false and [return 0;] becomes [] with result true.
C5_ContextPrecision ==
    (Called /\ in_tail = Some("Main"))
    => /\ SelectSeq(AllStmts(stmts), NotReturnZero)
            = SelectSeq(AllStmts(before), NotReturnZero)
       /\ Len(SelectSeq(AllStmts(stmts), IsCompound))
            = Len(SelectSeq(AllStmts(before), IsCompound))
       /\ before = <<Semi(Ret(Some(LitInt(1, "Unsuffixed"))))>>
             => (stmts = before /\ result = FALSE)
       /\ before = <<Semi(Ret(Some(LitInt(0, "Unsuffixed"))))>>
             => (stmts = <<>> /\ result = TRUE)

C5_Witness ==
    /\ Called /\ in_tail = Some("Main") /\ result = TRUE
    /\ Len(stmts) = Len(before)
    /\ \E i \in 1..Len(AllStmts(stmts)) :
          AllStmts(stmts)[i] = Semi(Ret(Some(LitInt(0, "I32"))))

\* C6 (return flag): a call returns true exactly when the tree holds fewer
\* statements after it than before it; on an empty sequence it returns false
\* and leaves the sequence empty.
C6_ReturnFlag ==
    Called
    => /\ result = (NumStmts(stmts) < NumStmts(before))
       /\ before = <<>> => (stmts = <<>> /\ result = FALSE)

C6_Witness ==
    /\ TailMatch /\ result = TRUE
    /\ Len(stmts) = Len(before)
    /\ NumStmts(stmts) < NumStmts(before)

\* C7 (dispatch arms): when the tail statement is a match, one call takes
\* the idempotent tail off every arm whose body is a block ending in one,
\* and returns true exactly when some arm lost a statement.
C7_DispatchArms ==
    TailMatch
    => /\ Len(stmts) = Len(before)
       /\ IsMatch(Last(stmts))
       /\ Len(Last(stmts).expr.arms) = Len(Last(before).expr.arms)
       /\ \A i \in 1..Len(Last(before).expr.arms) :
             LET old == Last(before).expr.arms[i].body
                 new == Last(stmts).expr.arms[i].body
             IN (old.node = "Block" /\ EndsIdempotent(old.blk.stmts))
                    => (new.node = "Block" /\ new.blk.stmts = Front(old.blk.stmts))
       /\ result = (\E i \in 1..Len(Last(before).expr.arms) :
                       NumStmts(<<ExprStmt(Last(stmts).expr.arms[i].body)>>)
                           < NumStmts(<<ExprStmt(Last(before).expr.arms[i].body)>>))

\* A statement cleanup_if changes: a conditional whose else is an empty
\* block that carries no label.
EmptyElse(st) ==
    /\ HasBlockElse(st)
    /\ st.expr.els[1].blk.stmts = <<>>
    /\ st.expr.els[1].label = None

\* The same, whatever the block's label.
EmptyElseAnyLabel(st) ==
    /\ HasBlockElse(st)
    /\ st.expr.els[1].blk.stmts = <<>>

RECURSIVE LocalSeq(_, _)

\* A block the call may or may not have visited.
MaybeVisited(old, new) == new = old \/ LocalSeq(old, new)

\* What a call may do to a statement it keeps.
LocalStmt(old, new) ==
    /\ new.kind = old.kind
    /\ CASE IsIf(old) ->
               /\ new.expr.node = "If"
               /\ new.expr.cond = old.expr.cond
               /\ LocalSeq(ThenOf(old), ThenOf(new))
               /\ IF HasBlockElse(old)
                  THEN \/ /\ new.expr.els = None
                          /\ old.expr.els[1].label = None
                          /\ LocalSeq(ElseOf(old), <<>>)
                       \/ /\ HasBlockElse(new)
                          /\ new.expr.els[1].label = old.expr.els[1].label
                          /\ MaybeVisited(ElseOf(old), ElseOf(new))
                  ELSE new.expr.els = old.expr.els
         [] IsMatch(old) ->
               /\ new.expr.node = "Match"
               /\ new.expr.scrut = old.expr.scrut
               /\ Len(new.expr.arms) = Len(old.expr.arms)
               /\ \A i \in 1..Len(old.expr.arms) :
                     LET o == old.expr.arms[i]
                         n == new.expr.arms[i]
                     IN /\ n.pat = o.pat
                        /\ IF o.body.node = "Block"
                           THEN /\ n.body.node = "Block"
                                /\ n.body.label = o.body.label
                                /\ MaybeVisited(o.body.blk.stmts, n.body.blk.stmts)
                           ELSE n.body = o.body
         [] OTHER -> new = old

\* What a call does to a sequence it visits.
LocalSeq(old, new) ==
    IF old = <<>> THEN new = <<>>
    ELSE IF is_idempotent_tail_expr(self, Last(old)) THEN new = Front(old)
    ELSE /\ Len(new) = Len(old)
         /\ Front(new) = Front(old)
         /\ LocalStmt(Last(old), Last(new))

\* C9 (locality): a sequence the call visits loses its last statement,
\* exactly when the classifier accepts it, or keeps its length and all its
\* statements but the last, of which the condition, the scrutinee, the
\* patterns, an else that is not a block and an arm body that is not a block
\* are as they were; the same holds of every block visited inside it.
C9_Locality ==
    Called => LocalSeq(before, stmts)

C9_Witness ==
    /\ TailIf /\ result = TRUE
    /\ Last(before).expr.els # None
    /\ Last(before).expr.els[1].node = "If"
    /\ stmts # before

\* The arms after the first one that lost a statement are as they were.
LaterArmsUntouched(old, new) ==
    \A i \in 1..Len(old) :
        NumStmts(<<ExprStmt(new[i].body)>>) < NumStmts(<<ExprStmt(old[i].body)>>)
            => \A j \in (i + 1)..Len(old) : new[j] = old[j]

\* C10 (one removal): a call takes exactly one statement out of the tree
\* when it returns true and none when it returns false; once the then-block
\* has lost a statement the else-block holds the statements it held (an
\* empty unlabelled one is dropped by cleanup_if), and once an arm has lost
\* one the arms after it are as they were.
C10_OneRemoval ==
    Called
    => /\ NumStmts(before) - NumStmts(stmts) = (IF result THEN 1 ELSE 0)
       /\ (TailIf /\ HasBlockElse(Last(before))
              /\ NumStmts(ThenOf(Last(stmts))) < NumStmts(ThenOf(Last(before))))
             => \/ /\ HasBlockElse(Last(stmts))
                   /\ ElseOf(Last(stmts)) = ElseOf(Last(before))
                \/ /\ EmptyElse(Last(before))
                   /\ Last(stmts).expr.els = None
       /\ TailMatch => LaterArmsUntouched(Last(before).expr.arms, Last(stmts).expr.arms)

C10_Witness ==
    /\ TailIf /\ HasBlockElse(Last(before)) /\ result = TRUE
    /\ EndsIdempotent(ThenOf(Last(before)))
    /\ EndsIdempotent(ElseOf(Last(before)))
    /\ HasBlockElse(Last(stmts))
    /\ EndsIdempotent(ElseOf(Last(stmts)))

====
